---- MODULE Spec2Model ----
(***************************************************************************)
(* The Nav component of src/src/Nav.tsx as a state machine.                *)
(*                                                                         *)
(* A value that may be undefined is a sequence of length at most one:      *)
(* <<>> is undefined, <<v>> is v.  A props object is a record with one     *)
(* such field per prop name; an absent prop reads as undefined, as it      *)
(* does in the destructuring of Nav.tsx:125-137.                           *)
(*                                                                         *)
(* Three collaborators are imported by Nav.tsx and their bodies are not    *)
(* part of the source tree: useUncontrolled (package uncontrollable),      *)
(* useBootstrapPrefix (./ThemeProvider) and classNames (package            *)
(* classnames).  They are modelled from sections 4.1, 6 and 4.3 of the     *)
(* specification; everything else is translated from Nav.tsx.              *)
(***************************************************************************)
EXTENDS Naturals, Sequences, FiniteSets, TLC

VARIABLES
  mounted,         \* whether the instance is mounted
  props,           \* the props object of the current element (uncontrolledProps)
  navbarContext,   \* useContext(NavbarContext): <<>> or <<[bsPrefix |-> ...]>>
  cardContext,     \* useContext(CardContext): <<>> or <<[cardHeaderBsPrefix |-> ...]>>
  stateValue,      \* the active key the instance holds between renders
  rendered,        \* the AbstractNav element returned by the last render
  propTypesError,  \* whether propTypes.justify returned an Error for props
  nEvents,         \* selection events received since mount
  lastEvent,       \* the key of the last selection event
  nNotified,       \* invocations of the caller's onSelect since mount
  lastNotified     \* the key given to the caller's onSelect last

vars == <<mounted, props, navbarContext, cardContext, stateValue, rendered,
          propTypesError, nEvents, lastEvent, nNotified, lastNotified>>

(* Selection events one mounted life receives at most. *)
MaxEvents == 3

----------------------------------------------------------------------------
(* Optional values and JavaScript coercions *)

None == <<>>

Some(x) == <<x>>

\* `${x}` in a template literal: undefined prints as "undefined"
Interpolate(o) == IF o = None THEN "undefined" ELSE o[1]

\* !!x for an optional string: undefined and "" are falsy
TruthyString(o) == o # None /\ o[1] # ""

\* !!x for an optional boolean
TruthyBool(o) == o # None /\ o[1]

----------------------------------------------------------------------------
(* Props and contexts *)

EventKeys == {"a", "b"}

OptKeys == {None} \cup {Some(k) : k \in EventKeys}

OptBool == {None, Some(TRUE), Some(FALSE)}

OptTrue == {None, Some(TRUE)}

Variants == {None, Some("tabs"), Some("pills")}

\* own prefixes: the default, and one that coincides with {navbarPrefix}-nav
BsPrefixes == {None, Some("navbar-nav")}

NavbarContexts == {None, Some([bsPrefix |-> "navbar"])}

CardContexts == {None, Some([cardHeaderBsPrefix |-> "card-header"])}

\* NavProps (Nav.tsx:21-34) with the props BsPrefixPropsWithChildren adds
PropNames ==
  {"as", "bsPrefix", "variant", "fill", "justify", "navbar", "navbarScroll",
   "className", "children", "activeKey", "defaultActiveKey", "onSelect",
   "role", "onKeyDown"}

AllProps ==
  [as : {None}, bsPrefix : BsPrefixes, variant : Variants, fill : OptTrue,
   justify : OptTrue, navbar : OptBool, navbarScroll : OptTrue,
   className : {None, Some("custom")}, children : {Some("items")},
   activeKey : OptKeys, defaultActiveKey : {None, Some("a")},
   onSelect : {None, Some("cb")}, role : {None, Some("tablist")},
   onKeyDown : {Some("kd")}]

\* the props a mounted life is re-rendered with
LifeProps ==
  [as : {None}, bsPrefix : {None}, variant : {Some("tabs")}, fill : {None},
   justify : {None}, navbar : {None}, navbarScroll : {None},
   className : {None}, children : {Some("items")},
   activeKey : OptKeys, defaultActiveKey : OptKeys,
   onSelect : {None, Some("cb")}, role : {None}, onKeyDown : {Some("kd")}]

NoProps == [n \in PropNames |-> None]

NoElement == [as |-> None, activeKey |-> None, className |-> <<>>, props |-> <<>>]

----------------------------------------------------------------------------
(* Nav.defaultProps and Nav.propTypes *)

defaultProps(p) ==
  [p EXCEPT !.justify = IF p.justify = None THEN Some(FALSE) ELSE p.justify,
            !.fill = IF p.fill = None THEN Some(FALSE) ELSE p.fill]

\* ({ justify, navbar }) => justify && navbar ? Error(...) : null
propTypesJustify(p) == TruthyBool(p.justify) /\ TruthyBool(p.navbar)

----------------------------------------------------------------------------
(* Collaborators whose bodies are outside the source tree *)

\* the notifier the selection resolver hands on in place of the caller's
Handler(onSelect) == <<"handler", onSelect>>

\* useUncontrolled(props, { activeKey: 'onSelect' }): the supplied activeKey,
\* else the held value; defaultActiveKey is consumed, onSelect is resolved
useUncontrolled(p, held) ==
  [n \in DOMAIN p \ {"defaultActiveKey"} |->
     IF n = "activeKey" THEN (IF p.activeKey # None THEN p.activeKey ELSE held)
     ELSE IF n = "onSelect" THEN Handler(p.onSelect)
     ELSE p[n]]

\* useBootstrapPrefix(prefix, 'nav') with no theme override
useBootstrapPrefix(prefix, defaultPrefix) ==
  IF TruthyString(prefix) THEN prefix[1] ELSE defaultPrefix

\* classNames(className, object): className if truthy, then the object's keys
\* whose values are truthy, in the object's order
classNames(className, object) ==
  LET on == SelectSeq(object, LAMBDA e : e[2])
  IN (IF TruthyString(className) THEN <<className[1]>> ELSE <<>>)
       \o [i \in 1..Len(on) |-> on[i][1]]

----------------------------------------------------------------------------
(* The Nav function component, Nav.tsx:124-174 *)

\* const { as, bsPrefix, ..., activeKey, ...props } = useUncontrolled(...)
Destructured ==
  {"as", "bsPrefix", "variant", "fill", "justify", "navbar", "navbarScroll",
   "className", "children", "activeKey"}

restPropsDropsRole(u) == [n \in DOMAIN u \ (Destructured \cup {"role"}) |-> u[n]]

restProps(u) == [n \in DOMAIN u \ Destructured |-> u[n]]

\* if (navbarContext) { navbarBsPrefix = navbarContext.bsPrefix; ... }
navbarBsPrefix(nctx) == IF nctx # None THEN Some(nctx[1].bsPrefix) ELSE None

\* let isNavbar = false; if (navbarContext) isNavbar = navbar == null ? true : navbar
isNavbar(navbar, nctx) ==
  IF nctx # None THEN (IF navbar = None THEN TRUE ELSE navbar[1]) ELSE FALSE

cardHeaderBsPrefixNoElse(nctx, cctx) ==
  IF cctx # None THEN Some(cctx[1].cardHeaderBsPrefix) ELSE None

\* else if (cardContext) ({ cardHeaderBsPrefix } = cardContext)
cardHeaderBsPrefix(nctx, cctx) ==
  IF nctx # None THEN None
  ELSE IF cctx # None THEN Some(cctx[1].cardHeaderBsPrefix) ELSE None

\* the entries of the object literal given to classNames, one per line
ownEntry(bsPrefix, hosted) == <<bsPrefix, ~hosted>>

navEntry(nbp, hosted) == <<Interpolate(nbp) \o "-nav", hosted>>

scrollEntryIgnoresHosting(nbp, hosted, navbarScroll) ==
  <<Interpolate(nbp) \o "-nav-scroll", TruthyBool(navbarScroll)>>

scrollEntry(nbp, hosted, navbarScroll) ==
  <<Interpolate(nbp) \o "-nav-scroll", hosted /\ TruthyBool(navbarScroll)>>

cardEntry(chp, variant) ==
  <<Interpolate(chp) \o "-" \o Interpolate(variant), TruthyString(chp)>>

variantEntry(bsPrefix, variant) ==
  <<bsPrefix \o "-" \o Interpolate(variant), TruthyString(variant)>>

fillEntry(bsPrefix, fill) == <<bsPrefix \o "-fill", TruthyBool(fill)>>

justifiedEntry(bsPrefix, justify) == <<bsPrefix \o "-justified", TruthyBool(justify)>>

\* an object literal with computed keys: a key written twice keeps its first
\* place and takes its last value
RECURSIVE ObjectLiteral(_)
ObjectLiteral(entries) ==
  IF entries = <<>> THEN <<>>
  ELSE LET init == ObjectLiteral(SubSeq(entries, 1, Len(entries) - 1))
           e == entries[Len(entries)]
       IN IF \E i \in 1..Len(init) : init[i][1] = e[1]
          THEN [i \in 1..Len(init) |-> IF init[i][1] = e[1] THEN e ELSE init[i]]
          ELSE Append(init, e)

classObject(bsPrefix, nbp, chp, hosted, u) ==
  ObjectLiteral(<<ownEntry(bsPrefix, hosted),
                  navEntry(nbp, hosted),
                  scrollEntry(nbp, hosted, u.navbarScroll),
                  cardEntry(chp, u.variant),
                  variantEntry(bsPrefix, u.variant),
                  fillEntry(bsPrefix, u.fill),
                  justifiedEntry(bsPrefix, u.justify)>>)

AbstractNavWithoutActiveKey(as, activeKey, className, rest) ==
  [as |-> as, activeKey |-> None, className |-> className, props |-> rest]

\* <AbstractNav as={as} ref={ref} activeKey={activeKey} className={...} {...props}>
AbstractNav(as, activeKey, className, rest) ==
  [as |-> as, activeKey |-> activeKey, className |-> className, props |-> rest]

\* what the body does with the props object u it destructures
NavBody(u, nctx, cctx) ==
  LET bsPrefix == useBootstrapPrefix(u.bsPrefix, "nav")
      hosted == isNavbar(u.navbar, nctx)
  IN AbstractNav(IF u.as = None THEN "div" ELSE u.as[1],
                 u.activeKey,
                 classNames(u.className,
                            classObject(bsPrefix, navbarBsPrefix(nctx),
                                        cardHeaderBsPrefix(nctx, cctx), hosted, u)),
                 restProps(u))

NavWithoutHook(p, nctx, cctx, held) ==
  NavBody([n \in DOMAIN p \ {"defaultActiveKey"} |-> p[n]], nctx, cctx)

Nav(p, nctx, cctx, held) == NavBody(useUncontrolled(p, held), nctx, cctx)

----------------------------------------------------------------------------
(* The instance's life *)

Init ==
  /\ mounted = FALSE
  /\ props = NoProps
  /\ navbarContext = None
  /\ cardContext = None
  /\ stateValue = None
  /\ rendered = NoElement
  /\ propTypesError = FALSE
  /\ nEvents = 0
  /\ lastEvent = None
  /\ nNotified = 0
  /\ lastNotified = None

\* first render of an element with props p under the contexts nctx, cctx
Mount(p, nctx, cctx) ==
  /\ ~mounted
  /\ mounted' = TRUE
  /\ props' = p
  /\ navbarContext' = nctx
  /\ cardContext' = cctx
  /\ propTypesError' = propTypesJustify(defaultProps(p))
  /\ stateValue' = p.defaultActiveKey
  /\ rendered' = Nav(defaultProps(p), nctx, cctx, p.defaultActiveKey)
  /\ nEvents' = 0
  /\ lastEvent' = None
  /\ nNotified' = 0
  /\ lastNotified' = None

MountElement ==
  \E p \in LifeProps, nctx \in NavbarContexts, cctx \in CardContexts :
    Mount(p, nctx, cctx)

\* a later render: new props or new contexts, the held value kept
Rerender ==
  \E p \in LifeProps, nctx \in NavbarContexts, cctx \in CardContexts :
    /\ mounted
    /\ props' = p
    /\ navbarContext' = nctx
    /\ cardContext' = cctx
    /\ propTypesError' = propTypesJustify(defaultProps(p))
    /\ rendered' = Nav(defaultProps(p), nctx, cctx, stateValue)
    /\ UNCHANGED <<mounted, stateValue, nEvents, lastEvent, nNotified, lastNotified>>

\* the list primitive reports the selection of key through the onSelect it was
\* given; an uncontrolled instance stores the key and renders again
Select ==
  \E key \in EventKeys :
    /\ mounted
    /\ nEvents < MaxEvents
    /\ nEvents' = nEvents + 1
    /\ lastEvent' = Some(key)
    /\ IF props.onSelect # None
       THEN nNotified' = nNotified + 1 /\ lastNotified' = Some(key)
       ELSE UNCHANGED <<nNotified, lastNotified>>
    /\ stateValue' = IF props.activeKey = None THEN Some(key) ELSE stateValue
    /\ rendered' = Nav(defaultProps(props), navbarContext, cardContext, stateValue')
    /\ UNCHANGED <<mounted, props, navbarContext, cardContext, propTypesError>>

Unmount ==
  /\ mounted
  /\ mounted' = FALSE
  /\ props' = NoProps
  /\ navbarContext' = None
  /\ cardContext' = None
  /\ stateValue' = None
  /\ rendered' = NoElement
  /\ propTypesError' = FALSE
  /\ nEvents' = 0
  /\ lastEvent' = None
  /\ nNotified' = 0
  /\ lastNotified' = None

Next == MountElement \/ Rerender \/ Select \/ Unmount

Spec == Init /\ [][Next]_vars

----------------------------------------------------------------------------
(* One render of every props object under every pair of contexts *)

InitCompose ==
  /\ mounted = FALSE
  /\ props \in AllProps
  /\ navbarContext \in NavbarContexts
  /\ cardContext \in CardContexts
  /\ stateValue = None
  /\ rendered = NoElement
  /\ propTypesError = FALSE
  /\ nEvents = 0
  /\ lastEvent = None
  /\ nNotified = 0
  /\ lastNotified = None

MountPending == Mount(props, navbarContext, cardContext)

NextCompose == MountPending

SpecCompose == InitCompose /\ [][NextCompose]_vars

----------------------------------------------------------------------------
(* What the properties below read off a state *)

\* the class tokens of the composed className, as a set
ClassSet == {rendered.className[i] : i \in 1..Len(rendered.className)}

\* isHostedInNavbar as section 3 of the specification defines it
IsHostedInNavbar ==
  navbarContext # None /\ (props.navbar = None \/ props.navbar[1])

OwnPrefix == IF props.bsPrefix = None THEN "nav" ELSE props.bsPrefix[1]

\* {navbarPrefix}-nav and {navbarPrefix}-nav-scroll under the current context
NavbarNavClass ==
  (IF navbarContext = None THEN "undefined" ELSE navbarContext[1].bsPrefix) \o "-nav"

NavbarScrollClass == NavbarNavClass \o "-scroll"

\* {cardHeaderPrefix}-{variant} under the current card context
CardHeaderClass ==
  (IF cardContext = None THEN "undefined" ELSE cardContext[1].cardHeaderBsPrefix)
    \o "-" \o Interpolate(props.variant)

\* every class a card-header prefix can give rise to
CardHeaderDerived ==
  {c[1].cardHeaderBsPrefix \o "-" \o Interpolate(v) :
     c \in CardContexts \ {None}, v \in Variants}

JustifyIsTrue == props.justify = Some(TRUE)

----------------------------------------------------------------------------
(* C1: whenever justify is true and the Nav is navbar-hosted (own navbar   *)
(* prop true, or hosting inferred from a navbar context with navbar        *)
(* unset), validation raises; whenever justify is true and the Nav is not  *)
(* navbar-hosted, validation does not raise.                               *)
C1_ValidationRejection ==
  mounted =>
    /\ (JustifyIsTrue /\ (props.navbar = Some(TRUE)
                          \/ (navbarContext # None /\ props.navbar = None)))
         => propTypesError
    /\ (JustifyIsTrue /\ ~isNavbar(props.navbar, navbarContext)) => ~propTypesError

(* C2: in every render where the caller supplies activeKey, the active key *)
(* handed to the list primitive is the supplied value, whatever the        *)
(* instance holds and whatever came before.                                *)
C2_ControlledFidelity ==
  (mounted /\ props.activeKey # None) => rendered.activeKey = props.activeKey

C2_Witness ==
  /\ mounted
  /\ nEvents > 0
  /\ props.activeKey = Some("a")
  /\ stateValue = Some("b")
  /\ rendered.activeKey = Some("a")

(* C3: with activeKey omitted, the first render hands on defaultActiveKey; *)
(* a selection event stores its key, makes it the effective active key and *)
(* gives it to the caller's onSelect if there is one; renders that stay    *)
(* uncontrolled keep the stored key, and every uncontrolled render hands   *)
(* on the stored key.                                                      *)
C3_Step ==
  /\ (~mounted /\ mounted' /\ props'.activeKey = None)
       => /\ stateValue' = props'.defaultActiveKey
          /\ rendered'.activeKey = props'.defaultActiveKey
  /\ (mounted /\ nEvents' = nEvents + 1 /\ props.activeKey = None)
       => /\ stateValue' = lastEvent'
          /\ rendered'.activeKey = lastEvent'
          /\ IF props.onSelect # None
             THEN nNotified' = nNotified + 1 /\ lastNotified' = lastEvent'
             ELSE nNotified' = nNotified
  /\ (mounted /\ mounted' /\ nEvents' = nEvents
        /\ props.activeKey = None /\ props'.activeKey = None)
       => stateValue' = stateValue

C3_UncontrolledEcho ==
  /\ []((mounted /\ props.activeKey = None) => rendered.activeKey = stateValue)
  /\ [][C3_Step]_vars

C3_Witness ==
  /\ mounted
  /\ props.activeKey = None
  /\ props.defaultActiveKey = Some("a")
  /\ props.onSelect # None
  /\ nEvents >= 2
  /\ lastEvent = Some("b")
  /\ stateValue = Some("b")
  /\ rendered.activeKey = Some("b")
  /\ lastNotified = Some("b")

(* C4, as stated: with both a navbar context and a card-header context     *)
(* present, isHostedInNavbar is true for every value of the navbar prop    *)
(* and the class {cardHeaderPrefix}-{variant} is not in the class set.     *)
C4_ContextPrecedence ==
  (mounted /\ navbarContext # None /\ cardContext # None)
    => /\ isNavbar(props.navbar, navbarContext)
       /\ CardHeaderClass \notin ClassSet

(* C4, amended: with both contexts present, isHostedInNavbar is the own    *)
(* navbar prop when it is set and true when it is unset, the navbar base   *)
(* class is applied exactly when hosted, and the card-header context       *)
(* contributes nothing: no card-header-derived class is in the class set,  *)
(* which is the one composed without the card-header context.              *)
C4_NavbarContextWins ==
  (mounted /\ navbarContext # None /\ cardContext # None)
    => /\ isNavbar(props.navbar, navbarContext)
            = (props.navbar = None \/ props.navbar[1])
       /\ (NavbarNavClass \in ClassSet) = (props.navbar = None \/ props.navbar[1])
       /\ ClassSet \cap CardHeaderDerived = {}
       /\ rendered.className
            = Nav(defaultProps(props), navbarContext, None, stateValue).className

C4_Witness ==
  /\ mounted
  /\ navbarContext # None
  /\ cardContext # None
  /\ props.navbar = Some(FALSE)
  /\ props.variant = Some("tabs")
  /\ NavbarNavClass \notin ClassSet

(* C5: the class {cardHeaderPrefix}-{variant} is in the class set exactly  *)
(* when a card-header prefix applies and variant is set; with a card       *)
(* context present and variant absent no card-header-derived class is      *)
(* produced.                                                               *)
C5_CardHeaderClass ==
  mounted =>
    /\ (CardHeaderClass \in ClassSet)
         = (navbarContext = None /\ cardContext # None /\ props.variant # None)
    /\ (cardContext # None /\ props.variant = None)
         => ClassSet \cap CardHeaderDerived = {}

(* C6: no configuration that validation lets through is rendered with both *)
(* the navbar base class {navbarPrefix}-nav and {ownPrefix}-justified.     *)
(* (A configuration validation rejects is taken not to be composed.)       *)
C6_NeverJustifiedInNavbar ==
  mounted =>
    \/ propTypesError
    \/ ~(NavbarNavClass \in ClassSet /\ (OwnPrefix \o "-justified") \in ClassSet)

(* C7, as stated: every incoming prop the composer does not name is in the *)
(* forwarded bag under the same name with the same value.                  *)
C7_PassThrough ==
  mounted =>
    \A n \in PropNames \ Destructured :
      props[n] # None => (n \in DOMAIN rendered.props /\ rendered.props[n] = props[n])

(* C7, amended: every incoming prop other than the ones the composer names *)
(* and the two the selection resolver takes (defaultActiveKey, onSelect)   *)
(* is forwarded under the same name with the same value; defaultActiveKey  *)
(* is not forwarded, and onSelect is forwarded as the resolver's notifier  *)
(* wrapping the caller's onSelect.                                         *)
C7_PassThroughButResolver ==
  mounted =>
    /\ DOMAIN rendered.props = PropNames \ (Destructured \cup {"defaultActiveKey"})
    /\ \A n \in PropNames \ (Destructured \cup {"defaultActiveKey", "onSelect"}) :
         rendered.props[n] = props[n]
    /\ rendered.props["onSelect"] = Handler(props.onSelect)

C7_Witness ==
  /\ mounted
  /\ props.role = Some("tablist")
  /\ props.onSelect = Some("cb")
  /\ props.defaultActiveKey = Some("a")
  /\ rendered.props["role"] = Some("tablist")
  /\ rendered.props["onKeyDown"] = Some("kd")

(* C8: the composed class list holds exactly one base class token: the own *)
(* prefix when not navbar-hosted, {navbarPrefix}-nav when navbar-hosted;   *)
(* never both and never neither, also when the two strings coincide.       *)
C8_ExactlyOneBaseClass ==
  mounted =>
    /\ Cardinality({i \in 1..Len(rendered.className) :
                      rendered.className[i] \in {OwnPrefix, NavbarNavClass}}) = 1
    /\ (IF IsHostedInNavbar THEN NavbarNavClass ELSE OwnPrefix) \in ClassSet

(* C9: {navbarPrefix}-nav-scroll is in the class set exactly when the Nav  *)
(* is navbar-hosted and navbarScroll is true; when it is not hosted, no    *)
(* scroll class is in the class set.                                       *)
C9_ScrollClass ==
  mounted =>
    /\ (NavbarScrollClass \in ClassSet)
         = (IsHostedInNavbar /\ props.navbarScroll = Some(TRUE))
    /\ ~IsHostedInNavbar
         => ClassSet \cap {"navbar-nav-scroll", "undefined-nav-scroll"} = {}

C9_Witness ==
  /\ mounted
  /\ IsHostedInNavbar
  /\ props.navbarScroll = Some(TRUE)
  /\ "navbar-nav-scroll" \in ClassSet

====
